---- MODULE Spec2Model ----
(***************************************************************************)
(* HiveMind Copilot: the ledger interaction layer.                         *)
(*                                                                         *)
(*   HederaClient            hivemind_copilot/hivemind/src/blockchain/     *)
(*                           hedera_client.py                              *)
(*   deploy_registry script  hivemind/deploy_registry.py                   *)
(*   HiveMindOrchestrator    hivemind/src/core/orchestrator.py             *)
(*     deploy_contract, interact_with_registry, agent_collaboration and    *)
(*     the HCS-10 methods, security_audit, compile_contract                *)
(*   POST /deploy            hivemind/src/api/router.py                    *)
(*                                                                         *)
(* The Hedera network and its SDK are outside the repository: a submitted  *)
(* transaction either yields a receipt or raises, files are created with   *)
(* the contents of the create transaction and grow by the contents of each *)
(* append transaction.                                                     *)
(***************************************************************************)
EXTENDS Integers, Sequences, FiniteSets, TLC

\* ------------------------------------------------------------------------
\* Bounds of the model
\* ------------------------------------------------------------------------
MaxLen == 2        \* longest payload, in bytes
MaxHcTxns == 1     \* transactions a HederaClient submits in one behaviour
MaxEnvChanges == 1 \* changes of the environment after start
MaxFileId == 2     \* file ids a caller may pass to HederaClient.deploy_contract
MaxKeys == 2       \* most items of a message (a dict)
MaxDeployCalls == 2 \* calls of the orchestrator's deploy_contract in one behaviour
MaxHcsSteps == 3   \* calls of the agent-collaboration methods in one behaviour
MaxCodeLen == 3    \* longest source text handed to compile_contract, in tokens

\* ------------------------------------------------------------------------
\* Values
\* ------------------------------------------------------------------------
\* Python's None: the value os.getenv returns for a variable that is not set.
None == "None"
\* A private-key string is a sequence of two-character tokens, so that the
\* "0x" prefix is one token and s[2:] is Tail(s).  NoneKey is None.
NoneKey == <<None>>

NetworkNames == {None, "testnet", "TESTNET", "mainnet", "MainNet", "invalid"}
AccountStrs == {None, "0.0.12345", "0.0.bad"}
KeyStrs == {NoneKey, <<"aa">>, <<"0x", "aa">>, <<"bb">>, <<"302e">>, <<"3030">>, <<"zz">>}

\* A text is a sequence of characters.  Compiled bytecode (solcx 'bin') is a
\* text of hex digits; create_file takes any text.
HexChars == {"6", "f"}
Chars == {"a", "e-acute"}
Bytecodes == UNION {[1..n -> HexChars] : n \in 0..MaxLen}
Contents == UNION {[1..n -> Chars] : n \in 0..MaxLen}
FileIdArgs == 1..MaxFileId

\* A Python value is its type and its text (repr); a dict is the sequence of
\* its items in insertion order.
PyValue(type, val) == [type |-> type, val |-> val]
Item(k, v) == [k |-> k, v |-> v]

VARIABLES
    env,        \* os.environ: HEDERA_NETWORK, HEDERA_ACCOUNT_ID, HEDERA_PRIVATE_KEY,
                \* GROQ_API_KEY
    envChanges, \* number of changes of the environment so far
    hc,         \* the HederaClient instance (self.client and its operator)
    hcCalls,    \* SDK calls made by the last HederaClient() construction, in order
    hcError,    \* exception raised by the last HederaClient() construction
    reg,        \* module state of deploy_registry (client, operator_id, operator_key)
    regCalls,   \* SDK calls made by the module-level setup of deploy_registry
    regError,   \* exception raised by the module-level setup of deploy_registry
    files,      \* the ledger's files: files[i] is the content of file 0.0.i
    contracts,  \* the ledger's contracts: contracts[i] is contract 0.0.i
    topics,     \* the ledger's topics: topics[i] is topic 0.0.i
    txLog,      \* every transaction executed against the ledger, in order
    dr,         \* deploy_registry.deploy_contract: position and locals
    hcLast,     \* the last call of a HederaClient method and its outcome
    orch,       \* the HiveMindOrchestrator instance
    orchLog,    \* what each call of the orchestrator's deploy_contract returned
    paramChoices, \* the constructor_params dicts callers pass to deploy_contract
    messageChoices, \* the messages callers pass to sign, verify and submit
    codeChoices, \* the source texts callers pass to the orchestrator
    registryLast, \* the last call of interact_with_registry and its outcome
    registrySeen, \* what was listed of and registered on the tracked registry
    hcsLog,     \* the calls of the agent-collaboration methods, in order
    hcsTopic,   \* the messages on each HCS-10 connection topic
    auditLast,  \* the last call of security_audit and its outcome
    compileLast \* the last call of compile_contract and its outcome

credVars == <<env, envChanges, hc, hcCalls, hcError, reg, regCalls, regError>>
ledgerVars == <<files, contracts, topics, txLog>>
inputVars == <<paramChoices, messageChoices, codeChoices>>
registryVars == <<registryLast, registrySeen>>
hcsVars == <<hcsLog, hcsTopic>>
toolVars == <<auditLast, compileLast>>
svcVars == <<registryVars, hcsVars, toolVars>>
otherVars == <<orch, orchLog, inputVars, svcVars>>

\* ------------------------------------------------------------------------
\* The SDK's parsers (hedera.AccountId, hedera.PrivateKey)
\* ------------------------------------------------------------------------
\* str.lower()
lower(s) ==
    CASE s = "TESTNET" -> "testnet"
      [] s = "MainNet" -> "mainnet"
      [] OTHER -> s

\* os.getenv(name, default)
getenv(e, name, default) == IF e[name] = None THEN default ELSE e[name]

\* str.startswith("0x")
startswith0x(s) == Len(s) >= 1 /\ s[1] = "0x"

NoKey == [scheme |-> "none", material |-> <<>>]
NoOperator == [accountId |-> None, privateKey |-> NoKey]

\* AccountId.fromString succeeds on a well-formed "shard.realm.num".
AccountIdParses(s) == s = "0.0.12345"

\* PrivateKey.fromString: the ED25519 parse ("first try ED25519").
\* Raw 32-byte hex (aa, bb) and a DER-encoded ED25519 key (302e) parse.
ParsesED25519(s) == s \in {<<"aa">>, <<"bb">>, <<"302e">>}

\* PrivateKey.fromStringECDSA: raw 32-byte hex and a DER-encoded ECDSA key (3030).
ParsesECDSA(s) == s \in {<<"aa">>, <<"bb">>, <<"3030">>}

PrivateKey(scheme, s) == [scheme |-> scheme, material |-> s]

NoClient == "none"

\* What execute()/getReceipt() raise (PrecheckStatusException,
\* ReceiptStatusException): the exception names no file and no chunk count.
SdkException == [type |-> "SdkException"]
NoError == [type |-> None]

\* No method of the HederaClient instance has been called yet.
NoCall == [op |-> "none", content |-> <<>>, file_id |-> 0, ret |-> 0,
           key |-> NoKey, error |-> NoError, message |-> <<>>,
           signature |-> <<>>, public_key |-> <<>>, verified |-> FALSE,
           params |-> <<>>, txn |-> 0, status |-> None, client |-> NoClient,
           topic_id |-> 0, contract_id |-> 0]
NoSession == [exists |-> FALSE, client |-> NoClient, operator |-> NoOperator]
\* No HiveMindOrchestrator has been constructed yet.
NoOrchestrator == [exists |-> FALSE, hedera_client |-> NoSession]

\* ------------------------------------------------------------------------
\* HederaClient.__init__
\* ------------------------------------------------------------------------
\* Lines 31-38: the network selection.
\* (mutant: the name is compared without lower())
HcNetworkMutant(e) ==
    LET network == getenv(e, "HEDERA_NETWORK", "testnet") IN
    IF network = "testnet"
    THEN [client |-> "testnet", calls |-> <<"Client.forTestnet">>, error |-> None]
    ELSE IF network = "mainnet"
    THEN [client |-> "mainnet", calls |-> <<"Client.forMainnet">>, error |-> None]
    ELSE [client |-> NoClient, calls |-> <<>>, error |-> "ValueError"]

HcNetwork(e) ==
    LET network == getenv(e, "HEDERA_NETWORK", "testnet") IN
    IF lower(network) = "testnet"
    THEN [client |-> "testnet", calls |-> <<"Client.forTestnet">>, error |-> None]
    ELSE IF lower(network) = "mainnet"
    THEN [client |-> "mainnet", calls |-> <<"Client.forMainnet">>, error |-> None]
    ELSE [client |-> NoClient, calls |-> <<>>, error |-> "ValueError"]

\* Lines 45-46: remove the "0x" prefix of the private key.
StripPrefix(s) == IF s # NoneKey /\ startswith0x(s) THEN Tail(s) ELSE s

\* Lines 54-61: first ED25519, then ECDSA.
HcParseKey(s) ==
    IF ParsesED25519(s)
    THEN [key |-> PrivateKey("ED25519", s),
          calls |-> <<"PrivateKey.fromString">>, error |-> None]
    ELSE IF ParsesECDSA(s)
    THEN [key |-> PrivateKey("ECDSA", s),
          calls |-> <<"PrivateKey.fromString", "PrivateKey.fromStringECDSA">>,
          error |-> None]
    ELSE [key |-> NoKey,
          calls |-> <<"PrivateKey.fromString", "PrivateKey.fromStringECDSA">>,
          error |-> "PrivateKeyError"]

\* Lines 48-67: parse the credentials and set the operator.
\* (mutant: the parse failures are not raised, the operator is set anyway)
HcSetOperatorMutant(e, n) ==
    LET account_id_str == e["HEDERA_ACCOUNT_ID"]
        private_key_str == StripPrefix(e["HEDERA_PRIVATE_KEY"])
        k == HcParseKey(private_key_str)
    IN  [exists |-> TRUE, client |-> n.client,
         operator |-> [accountId |-> account_id_str, privateKey |-> k.key],
         calls |-> n.calls \o <<"AccountId.fromString">> \o k.calls
                   \o <<"setOperator">>,
         error |-> None]

HcSetOperator(e, n) ==
    LET account_id_str == e["HEDERA_ACCOUNT_ID"]
        private_key_str == StripPrefix(e["HEDERA_PRIVATE_KEY"])
        k == HcParseKey(private_key_str)
    IN  IF ~AccountIdParses(account_id_str)
        THEN [exists |-> FALSE, client |-> NoClient, operator |-> NoOperator,
              calls |-> n.calls \o <<"AccountId.fromString">>,
              error |-> "AccountIdError"]
        ELSE IF k.error # None
        THEN [exists |-> FALSE, client |-> NoClient, operator |-> NoOperator,
              calls |-> n.calls \o <<"AccountId.fromString">> \o k.calls,
              error |-> k.error]
        ELSE [exists |-> TRUE, client |-> n.client,
              operator |-> [accountId |-> account_id_str, privateKey |-> k.key],
              calls |-> n.calls \o <<"AccountId.fromString">> \o k.calls
                        \o <<"setOperator">>,
              error |-> None]

\* The whole constructor: what it leaves behind for environment e.
HcConstruct(e) ==
    LET n == HcNetwork(e) IN
    IF n.error # None
    THEN [exists |-> FALSE, client |-> NoClient, operator |-> NoOperator,
          calls |-> n.calls, error |-> n.error]
    ELSE HcSetOperator(e, n)

HederaClient_init ==
    LET r == HcConstruct(env) IN
    /\ hc' = [exists |-> r.exists, client |-> r.client, operator |-> r.operator]
    /\ hcCalls' = r.calls
    /\ hcError' = r.error
    /\ hcLast' = NoCall
    /\ UNCHANGED <<env, envChanges, reg, regCalls, regError, ledgerVars, dr, otherVars>>

\* ------------------------------------------------------------------------
\* deploy_registry: module-level client setup (lines 25-45)
\* ------------------------------------------------------------------------
\* "not x" of a string: None or empty.
Falsy(s) == s = None
FalsyKey(s) == s = NoneKey \/ s = <<>>

RegSetup(e) ==
    LET ACCOUNT_ID == e["HEDERA_ACCOUNT_ID"]
        NETWORK == getenv(e, "HEDERA_NETWORK", "testnet")
    IN
    IF Falsy(ACCOUNT_ID) \/ FalsyKey(e["HEDERA_PRIVATE_KEY"])
    THEN [exists |-> FALSE, client |-> NoClient, operator |-> NoOperator,
          calls |-> <<>>, error |-> "ValueError"]
    ELSE
      LET PRIVATE_KEY == IF startswith0x(e["HEDERA_PRIVATE_KEY"])
                         THEN Tail(e["HEDERA_PRIVATE_KEY"])
                         ELSE e["HEDERA_PRIVATE_KEY"]
          client == IF lower(NETWORK) = "testnet" THEN "testnet" ELSE "mainnet"
          c1 == IF client = "testnet" THEN <<"Client.forTestnet">>
                                      ELSE <<"Client.forMainnet">>
      IN
      IF ~AccountIdParses(ACCOUNT_ID)
      THEN [exists |-> FALSE, client |-> NoClient, operator |-> NoOperator,
            calls |-> c1 \o <<"AccountId.fromString">>, error |-> "AccountIdError"]
      ELSE IF ~ParsesECDSA(PRIVATE_KEY)
      THEN [exists |-> FALSE, client |-> NoClient, operator |-> NoOperator,
            calls |-> c1 \o <<"AccountId.fromString", "PrivateKey.fromStringECDSA">>,
            error |-> "PrivateKeyError"]
      ELSE [exists |-> TRUE, client |-> client,
            operator |-> [accountId |-> ACCOUNT_ID,
                          privateKey |-> PrivateKey("ECDSA", PRIVATE_KEY)],
            calls |-> c1 \o <<"AccountId.fromString", "PrivateKey.fromStringECDSA",
                              "setOperator">>,
            error |-> None]

deploy_registry_setup ==
    LET r == RegSetup(env) IN
    /\ reg' = [exists |-> r.exists, client |-> r.client, operator |-> r.operator]
    /\ regCalls' = r.calls
    /\ regError' = r.error
    /\ UNCHANGED <<env, envChanges, hc, hcCalls, hcError, ledgerVars, dr, hcLast, otherVars>>

\* ------------------------------------------------------------------------
\* config.validate_environment (lines 49-66)
\* ------------------------------------------------------------------------
validate_environment(e) ==
    /\ ~Falsy(e["GROQ_API_KEY"])
    /\ ~Falsy(e["HEDERA_ACCOUNT_ID"])
    /\ ~FalsyKey(e["HEDERA_PRIVATE_KEY"])

\* ------------------------------------------------------------------------
\* The environment changes (monkeypatch.setenv / a new .env)
\* ------------------------------------------------------------------------
setenv ==
    /\ envChanges < MaxEnvChanges
    /\ \E k \in KeyStrs :
         /\ k # env["HEDERA_PRIVATE_KEY"]
         /\ env' = [env EXCEPT !["HEDERA_PRIVATE_KEY"] = k]
    /\ envChanges' = envChanges + 1
    /\ UNCHANGED <<hc, hcCalls, hcError, reg, regCalls, regError, ledgerVars, dr, hcLast,
                   otherVars>>


\* ------------------------------------------------------------------------
\* The ledger as the code sees it: execute(client) then getReceipt(client)
\* ------------------------------------------------------------------------
\* str.encode("utf-8") of one character, and of a text.
Utf8Char(c) ==
    CASE c = "a" -> <<97>>
      [] c = "e-acute" -> <<195, 169>>
      [] c = "6" -> <<54>>
      [] c = "f" -> <<102>>
      [] c = "b" -> <<98>>
      [] c = "1" -> <<49>>
      [] c = "2" -> <<50>>
      [] c = "{" -> <<123>>
      [] c = "}" -> <<125>>
      [] c = "quote" -> <<34>>
      [] c = ":" -> <<58>>
      [] c = "space" -> <<32>>
      [] c = "," -> <<44>>

RECURSIVE encode(_)
encode(text) ==
    IF text = <<>> THEN <<>> ELSE Utf8Char(Head(text)) \o encode(Tail(text))

\* One executed transaction.  ok is FALSE when execute or getReceipt raised;
\* fileId is the id of the file, topic or contract the transaction names.
Tx(type, by, fileId, contents, key, ok) ==
    [type |-> type, by |-> by, fileId |-> fileId, contents |-> contents,
     key |-> key, ok |-> ok]

\* Number of transactions the HederaClient has executed.
RECURSIVE TxBy(_, _)
TxBy(log, by) ==
    IF log = <<>> THEN 0
    ELSE (IF Head(log).by = by THEN 1 ELSE 0) + TxBy(Tail(log), by)

\* The ledger refuses an append to, or a contract from, a file it does not hold.
FileExists(fid) == fid \in 1..Len(files)

\* ------------------------------------------------------------------------
\* deploy_registry.deploy_contract(bytecode)
\* ------------------------------------------------------------------------
DrStart == [pc |-> "start", stage |-> "none", bytecode |-> <<>>,
            bytecode_file_id |-> 0, contract_id |-> 0, error |-> NoError]

\* Lines 94-95: the create transaction carries keys and no contents.
\* (mutant: the create carries the bytecode too)
DrCreateContentsMutant(bytecode) == encode(bytecode)

DrCreateContents(bytecode) == <<>>

\* Line 109: the append transaction carries the whole bytecode.
\* (mutant: the append loses the first character)
DrAppendContentsMutant(bytecode) ==
    IF bytecode = <<>> THEN <<>> ELSE encode(Tail(bytecode))

DrAppendContents(bytecode) == encode(bytecode)

\* Lines 91 and 135-137: a step that raised ends the call ("raise"), a step
\* whose receipt was obtained goes on to the next one.
\* (mutants: a failed step goes on to the next one; a failed step returns)
DrOnReceiptMutant(ok, next) == next

DrOnReceiptSwallowMutant(ok, next) == IF ok THEN next ELSE "returned"

DrOnReceipt(ok, next) == IF ok THEN next ELSE "raised"

\* Lines 92-103: FileCreateTransaction.
dr_file_create ==
    /\ reg.exists
    /\ dr.pc = "start"
    /\ \E bytecode \in Bytecodes, ok \in BOOLEAN :
         LET c == DrCreateContents(bytecode) IN
         /\ txLog' = Append(txLog, Tx("FileCreate", "deploy_registry",
                                      IF ok THEN Len(files) + 1 ELSE 0, c, NoKey, ok))
         /\ IF ok
            THEN /\ files' = Append(files, c)
                 /\ dr' = [dr EXCEPT !.pc = DrOnReceipt(ok, "file_append"),
                                     !.stage = "file_create",
                                     !.bytecode = bytecode,
                                     !.bytecode_file_id = Len(files) + 1]
            ELSE /\ files' = files
                 /\ dr' = [dr EXCEPT !.pc = DrOnReceipt(ok, "file_append"),
                                     !.stage = "file_create",
                                     !.bytecode = bytecode, !.error = SdkException]
    /\ UNCHANGED <<credVars, contracts, topics, hcLast, otherVars>>

\* Lines 105-114: FileAppendTransaction.
dr_file_append ==
    /\ dr.pc = "file_append"
    /\ \E ok \in BOOLEAN :
         LET c == DrAppendContents(dr.bytecode)
             fid == dr.bytecode_file_id IN
         /\ ok => FileExists(fid)
         /\ txLog' = Append(txLog, Tx("FileAppend", "deploy_registry", fid, c, NoKey, ok))
         /\ IF ok
            THEN /\ files' = [files EXCEPT ![fid] = @ \o c]
                 /\ dr' = [dr EXCEPT !.pc = DrOnReceipt(ok, "contract_create"),
                                     !.stage = "file_append"]
            ELSE /\ files' = files
                 /\ dr' = [dr EXCEPT !.pc = DrOnReceipt(ok, "contract_create"),
                                     !.stage = "file_append",
                                     !.error = SdkException]
    /\ UNCHANGED <<credVars, contracts, topics, hcLast, otherVars>>

\* Lines 116-137: ContractCreateTransaction, return str(contract_id).
dr_contract_create ==
    /\ dr.pc = "contract_create"
    /\ \E ok \in BOOLEAN :
         LET fid == dr.bytecode_file_id IN
         /\ ok => FileExists(fid)
         /\ txLog' = Append(txLog, Tx("ContractCreate", "deploy_registry", fid, <<>>,
                                      NoKey, ok))
         /\ IF ok
            THEN /\ contracts' = Append(contracts, [fileId |-> fid,
                                                    bytecode |-> files[fid]])
                 /\ dr' = [dr EXCEPT !.pc = DrOnReceipt(ok, "returned"),
                                     !.stage = "contract_create",
                                     !.contract_id = Len(contracts) + 1]
            ELSE /\ contracts' = contracts
                 /\ dr' = [dr EXCEPT !.pc = DrOnReceipt(ok, "returned"),
                                     !.stage = "contract_create",
                                     !.error = SdkException]
    /\ UNCHANGED <<credVars, files, topics, hcLast, otherVars>>

\* ------------------------------------------------------------------------
\* HederaClient methods
\* ------------------------------------------------------------------------
\* transaction.execute(self.client) and txn_response.getReceipt(self.client):
\* the client a method of the session hands to the SDK.
ExecuteClient(session) == session.client

\* One call of transaction.execute: the transaction reaches the ledger once.
\* (mutant: a transaction that failed is executed a second time)
HcExecuteMutant(log, tx) ==
    IF tx.ok THEN Append(log, tx) ELSE Append(Append(log, tx), tx)

HcExecute(log, tx) == Append(log, tx)

\* What a method returns after execute and getReceipt: the value taken from
\* the response or the receipt, or the exception that execute or getReceipt
\* raised (no method catches it).
\* (mutant: the value is returned although no receipt was obtained)
HcReturnMutant(ok, value) == [ret |-> value, error |-> NoError]

HcReturn(ok, value) ==
    IF ok THEN [ret |-> value, error |-> NoError]
    ELSE [ret |-> 0, error |-> SdkException]

\* The record of a call that executed one transaction: txn is the number of
\* the transaction (its place in txLog), which is its transaction id.
HcCall(op, ok, value) ==
    [NoCall EXCEPT !.op = op, !.client = ExecuteClient(hc),
                   !.txn = Len(txLog) + 1,
                   !.ret = HcReturn(ok, value).ret,
                   !.error = HcReturn(ok, value).error]

\* Line 135: content_bytes = content.encode("utf-8"), the contents of the
\* one FileCreateTransaction.
CreateFileContents(content) == encode(content)

\* HederaClient.create_file(content), lines 124-150.
create_file ==
    /\ hc.exists
    /\ TxBy(txLog, "HederaClient") < MaxHcTxns
    /\ \E content \in Contents, ok \in BOOLEAN :
         LET c == CreateFileContents(content) IN
         /\ txLog' = HcExecute(txLog, Tx("FileCreate", "HederaClient",
                                         IF ok THEN Len(files) + 1 ELSE 0, c, NoKey, ok))
         /\ files' = IF ok THEN Append(files, c) ELSE files
         /\ hcLast' = [HcCall("create_file", ok, Len(files) + 1)
                          EXCEPT !.content = content]
    /\ UNCHANGED <<credVars, contracts, topics, dr, otherVars>>

\* isinstance(value, T): bool is a subclass of int.
isinstance(value, T) == value.type = T \/ (T = "int" /\ value.type = "bool")

\* int(value) of a float: the fraction is cut off.
IntOfFloat(val) == CASE val = "1.5" -> "1" [] val = "2.0" -> "2"

\* Lines 188-198: the calls on ContractFunctionParameters for one value.
\* str(True) is "True".
AddParam(value) ==
    IF isinstance(value, "str") THEN <<[fn |-> "addString", arg |-> value.val]>>
    ELSE IF isinstance(value, "int") THEN <<[fn |-> "addUint256", arg |-> value.val]>>
    ELSE IF isinstance(value, "bool") THEN <<[fn |-> "addBool", arg |-> value.val]>>
    ELSE IF isinstance(value, "float")
    THEN <<[fn |-> "addUint256", arg |-> IntOfFloat(value.val)]>>
    ELSE <<>>

\* Lines 181-200: the constructor parameters of the transaction, for the
\* items of constructor_params in the order of the dict.
RECURSIVE ConstructorParameters(_)
ConstructorParameters(constructor_params) ==
    IF constructor_params = <<>> THEN <<>>
    ELSE AddParam(Head(constructor_params).v)
           \o ConstructorParameters(Tail(constructor_params))

\* Values a caller may pass for a constructor parameter.
ParamValues == {PyValue("str", "TestToken"), PyValue("int", "18"),
                PyValue("bool", "True"), PyValue("bool", "False"),
                PyValue("float", "1.5"), PyValue("list", "[1]"),
                PyValue("NoneType", "None")}
\* The dicts of constructor parameters: None (no parameters) is <<>>.
ParamDicts ==
    {<<>>}
    \cup {<<Item("a", v)>> : v \in ParamValues}
    \cup {<<Item("a", v), Item("b", w)>> :
            v \in {PyValue("str", "TestToken"), PyValue("int", "18")},
            w \in ParamValues}

\* HederaClient.deploy_contract(file_id, constructor_params), lines 152-207,
\* with the default gas and balance.
HederaClient_deploy_contract ==
    /\ hc.exists
    /\ TxBy(txLog, "HederaClient") < MaxHcTxns
    /\ \E file_id \in FileIdArgs, constructor_params \in paramChoices, ok \in BOOLEAN :
         /\ ok => FileExists(file_id)
         /\ txLog' = HcExecute(txLog, Tx("ContractCreate", "HederaClient", file_id,
                                         ConstructorParameters(constructor_params),
                                         NoKey, ok))
         /\ contracts' = IF ok THEN Append(contracts, [fileId |-> file_id,
                                                       bytecode |-> files[file_id]])
                         ELSE contracts
         /\ hcLast' = [HcCall("deploy_contract", ok, Len(contracts) + 1)
                          EXCEPT !.file_id = file_id, !.params = constructor_params]
    /\ UNCHANGED <<credVars, files, topics, dr, otherVars>>

\* bytes.fromhex(s): every token is a pair of hex digits.
IsHex(s) == \A i \in 1..Len(s) : s[i] \in {"aa", "bb", "302e", "3030"}
\* Ed25519PrivateKey.from_private_bytes wants exactly 32 bytes: a raw key.
Is32Bytes(s) == s \in {<<"aa">>, <<"bb">>}

\* Lines 80-85 and 259-264: the key sign_message and create_topic work with.
EnvEd25519Key(e) ==
    LET private_key_hex == e["HEDERA_PRIVATE_KEY"] IN
    IF private_key_hex = NoneKey
    THEN [key |-> NoKey, error |-> [type |-> "AttributeError"]]
    ELSE LET h == IF startswith0x(private_key_hex) THEN Tail(private_key_hex)
                  ELSE private_key_hex
         IN  IF IsHex(h) /\ Is32Bytes(h)
             THEN [key |-> PrivateKey("ED25519", h), error |-> NoError]
             ELSE [key |-> NoKey, error |-> [type |-> "ValueError"]]

\* private_key.public_key()
PublicKey(k) == [scheme |-> k.scheme, public |-> k.material]

\* HederaClient.create_topic(memo), lines 69-98.
create_topic ==
    /\ hc.exists
    /\ LET k == EnvEd25519Key(env) IN
       IF k.error # NoError
       THEN /\ hcLast' = [NoCall EXCEPT !.op = "create_topic", !.error = k.error]
            /\ UNCHANGED <<topics, txLog>>
       ELSE /\ TxBy(txLog, "HederaClient") < MaxHcTxns
            /\ \E ok \in BOOLEAN :
                 /\ txLog' = HcExecute(txLog, Tx("TopicCreate", "HederaClient", 0, <<>>,
                                                 k.key, ok))
                 /\ topics' = IF ok
                              THEN Append(topics, [memo |-> "HiveMind Topic",
                                                   submitKey |-> PublicKey(k.key),
                                                   messages |-> <<>>])
                              ELSE topics
                 /\ hcLast' = [HcCall("create_topic", ok, Len(topics) + 1)
                                  EXCEPT !.key = k.key]
    /\ UNCHANGED <<credVars, files, contracts, dr, otherVars>>

\* ------------------------------------------------------------------------
\* Messages and their JSON text (json.dumps)
\* ------------------------------------------------------------------------
\* A message is a Python dict: its items in insertion order, keys distinct.
\* Unserializable is a value json.dumps has no encoder for: a set.
Unserializable == PyValue("set", "{1}")
MsgKeys == {"a", "b"}
MsgValues == {PyValue("int", "1"), PyValue("int", "2")}
DistinctKeys(m) == \A i, j \in 1..Len(m) : m[i].k = m[j].k => i = j
Messages ==
    {m \in UNION {[1..n -> [k : MsgKeys, v : MsgValues]] : n \in 0..MaxKeys} :
        DistinctKeys(m)}
    \cup {<<Item("a", Unserializable)>>}

\* The dict as a map: what == of two dicts compares.
AsMap(m) == {m[i] : i \in 1..Len(m)}

\* Order of str keys under sorted().
KeyRank(k) == CASE k = "a" -> 1 [] k = "b" -> 2

\* sorted(dict.items()) by key: insertion of each item at its place.
RECURSIVE SortItems(_)
SortItems(m) ==
    IF m = <<>> THEN <<>>
    ELSE LET rest == SortItems(Tail(m))
             lo == SelectSeq(rest, LAMBDA it : KeyRank(it.k) < KeyRank(Head(m).k))
             hi == SelectSeq(rest, LAMBDA it : KeyRank(it.k) >= KeyRank(Head(m).k))
         IN  lo \o <<Head(m)>> \o hi

\* The JSON text of an int.
IntText(v) == <<v.val>>

\* One item: "k": v
ItemText(it) == <<"quote", it.k, "quote", ":", "space">> \o IntText(it.v)

\* ", ".join(items)
RECURSIVE JoinItems(_)
JoinItems(items) ==
    IF items = <<>> THEN <<>>
    ELSE IF Len(items) = 1 THEN ItemText(items[1])
    ELSE ItemText(Head(items)) \o <<",", "space">> \o JoinItems(Tail(items))

\* json.dumps(message, sort_keys=sort_keys): the text, or TypeError.
json_dumps(message, sort_keys) ==
    IF \E i \in 1..Len(message) : message[i].v = Unserializable
    THEN [text |-> <<>>, error |-> [type |-> "TypeError"]]
    ELSE LET items == IF sort_keys THEN SortItems(message) ELSE message
         IN  [text |-> <<"{">> \o JoinItems(items) \o <<"}">>, error |-> NoError]

\* ------------------------------------------------------------------------
\* Ed25519 (cryptography.hazmat) and hex strings
\* ------------------------------------------------------------------------
\* bytes.hex(): two hex digits for each byte.
ByteHex(b) ==
    CASE b = 170 -> "aa" [] b = 187 -> "bb" [] b = 123 -> "7b" [] b = 125 -> "7d"
      [] b = 34 -> "22" [] b = 58 -> "3a" [] b = 32 -> "20" [] b = 44 -> "2c"
      [] b = 97 -> "61" [] b = 98 -> "62" [] b = 49 -> "31" [] b = 50 -> "32"
ModelBytes == {170, 187, 123, 125, 34, 58, 32, 44, 97, 98, 49, 50}
hex(bytes) == [i \in 1..Len(bytes) |-> ByteHex(bytes[i])]

\* bytes.fromhex(s): the bytes, or ValueError for a string with a non-hex digit.
fromhex(s) ==
    IF \A i \in 1..Len(s) : \E b \in ModelBytes : ByteHex(b) = s[i]
    THEN [bytes |-> [i \in 1..Len(s) |-> CHOOSE b \in ModelBytes : ByteHex(b) = s[i]],
          error |-> NoError]
    ELSE [bytes |-> <<>>, error |-> [type |-> "ValueError"]]

\* The byte a raw key stands for in a signature.
KeyByte(material) == CASE material = <<"aa">> -> 170 [] material = <<"bb">> -> 187

\* private_key.sign(data): deterministic, a function of the key and the data
\* that no other key and no other data yield.
Ed25519Sign(key, data) == <<KeyByte(key.material)>> \o data

\* verifier.verify(signature, data) raises InvalidSignature unless the
\* signature is the one the matching private key makes for the data.
Ed25519Verify(public, signature, data) == signature = <<KeyByte(public)>> \o data

\* Line 283: Ed25519PublicKey.from_public_bytes(bytes.fromhex(public_key)).
ParsesPublicKey(public_key) == IsHex(public_key) /\ Is32Bytes(public_key)

\* The hex string of the public key of a private key.
PublicKeyHex(k) == PublicKey(k).public

\* ------------------------------------------------------------------------
\* HederaClient.sign_message and HederaClient.verify_message
\* ------------------------------------------------------------------------
\* Line 265: the text sign_message signs.
sign_message_str(message) == json_dumps(message, TRUE)

\* Line 284: the text verify_message checks the signature against.
\* (mutant: the text is serialized in insertion order)
verify_message_strMutant(message) == json_dumps(message, FALSE)

verify_message_str(message) == json_dumps(message, TRUE)

\* Lines 259-268: what sign_message(message) returns or raises under
\* environment e.
SignMessage(e, message) ==
    LET k == EnvEd25519Key(e)
        message_str == sign_message_str(message)
    IN  IF k.error # NoError
        THEN [NoCall EXCEPT !.op = "sign_message", !.message = message,
                            !.error = k.error]
        ELSE IF message_str.error # NoError
        THEN [NoCall EXCEPT !.op = "sign_message", !.message = message,
                            !.key = k.key, !.error = message_str.error]
        ELSE [NoCall EXCEPT !.op = "sign_message", !.message = message,
                            !.key = k.key,
                            !.signature = hex(Ed25519Sign(k.key,
                                                          encode(message_str.text)))]

\* HederaClient.sign_message(message), lines 248-268.
sign_message ==
    /\ hc.exists
    /\ \E message \in messageChoices : hcLast' = SignMessage(env, message)
    /\ UNCHANGED <<credVars, ledgerVars, dr, otherVars>>

\* Lines 286-290: the part of verify_message inside try/except Exception.
VerifyTry(public_key, signature, data) ==
    LET sig == fromhex(signature) IN
    IF sig.error # NoError THEN FALSE
    ELSE Ed25519Verify(public_key, sig.bytes, data)

\* Lines 283-290: what verify_message(message, signature, public_key) returns
\* or raises.  The parse of the public key and json.dumps come before "try".
VerifyMessage(message, signature, public_key) ==
    LET call == [NoCall EXCEPT !.op = "verify_message", !.message = message,
                               !.signature = signature, !.public_key = public_key]
        message_str == verify_message_str(message)
    IN  IF ~ParsesPublicKey(public_key)
        THEN [call EXCEPT !.error = [type |-> "ValueError"]]
        ELSE IF message_str.error # NoError
        THEN [call EXCEPT !.error = message_str.error]
        ELSE [call EXCEPT !.verified = VerifyTry(public_key, signature,
                                                 encode(message_str.text))]

\* Strings a caller may pass for a signature that no sign_message returned:
\* not hex, hex of the wrong bytes, empty.
MalformedSignatures == {<<"zz">>, <<"aa">>, <<>>}
\* Strings a caller may pass for a public key: two keys, not hex, hex of a
\* length that is no Ed25519 public key.
PublicKeyArgs == {<<"aa">>, <<"bb">>, <<"zz">>, <<"302e">>}

\* The signature the caller holds: the one the last sign_message returned.
HeldSignatures ==
    IF hcLast.op \in {"sign_message", "verify_message"} /\ hcLast.signature # <<>>
    THEN {hcLast.signature} ELSE {}

\* HederaClient.verify_message(message, signature, public_key), lines 270-290.
verify_message ==
    /\ hc.exists
    /\ \E message \in messageChoices, public_key \in PublicKeyArgs,
          signature \in MalformedSignatures \cup HeldSignatures :
         hcLast' = VerifyMessage(message, signature, public_key)
    /\ UNCHANGED <<credVars, ledgerVars, dr, otherVars>>

\* ------------------------------------------------------------------------
\* HederaClient.submit_message and HederaClient.execute_contract
\* ------------------------------------------------------------------------
\* Line 111: message_bytes = json.dumps(message).encode("utf-8").
submit_message_str(message) == json_dumps(message, FALSE)

\* Topic and contract ids a caller may pass: one the ledger holds at the
\* start, one it does not.
TopicIdArgs == {1, 2}
ContractIdArgs == {1, 2}

\* The ledger takes a message for a topic it holds, from a client whose
\* operator key is the submit key of the topic.
TopicAccepts(topic_id, operator) ==
    /\ topic_id \in 1..Len(topics)
    /\ topics[topic_id].submitKey = PublicKey(operator.privateKey)

\* HederaClient.submit_message(topic_id, message), lines 100-122.
submit_message ==
    /\ hc.exists
    /\ \E topic_id \in TopicIdArgs, message \in messageChoices :
         LET message_str == submit_message_str(message) IN
         IF message_str.error # NoError
         THEN /\ hcLast' = [NoCall EXCEPT !.op = "submit_message",
                                          !.topic_id = topic_id,
                                          !.message = message,
                                          !.error = message_str.error]
              /\ UNCHANGED <<topics, txLog>>
         ELSE /\ TxBy(txLog, "HederaClient") < MaxHcTxns
              /\ \E ok \in BOOLEAN :
                   LET message_bytes == encode(message_str.text) IN
                   /\ ok => TopicAccepts(topic_id, hc.operator)
                   /\ txLog' = HcExecute(txLog, Tx("TopicMessageSubmit", "HederaClient",
                                                   topic_id, message_bytes, NoKey, ok))
                   /\ topics' = IF ok
                                THEN [topics EXCEPT ![topic_id].messages =
                                                        Append(@, message_bytes)]
                                ELSE topics
                   /\ hcLast' = [HcCall("submit_message", ok, Len(txLog) + 1)
                                    EXCEPT !.topic_id = topic_id, !.message = message]
    /\ UNCHANGED <<credVars, files, contracts, dr, otherVars>>

\* HederaClient.execute_contract(contract_id, function_name), lines 209-246,
\* without parameters and with the default gas.  The dict it returns holds
\* the transaction id and the status of the receipt.
execute_contract ==
    /\ hc.exists
    /\ TxBy(txLog, "HederaClient") < MaxHcTxns
    /\ \E contract_id \in ContractIdArgs, ok \in BOOLEAN :
         /\ ok => contract_id \in 1..Len(contracts)
         /\ txLog' = HcExecute(txLog, Tx("ContractExecute", "HederaClient", contract_id,
                                         <<>>, NoKey, ok))
         /\ hcLast' = [HcCall("execute_contract", ok, Len(txLog) + 1)
                          EXCEPT !.contract_id = contract_id,
                                 !.status = IF ok THEN "SUCCESS" ELSE None]
    /\ UNCHANGED <<credVars, files, contracts, topics, dr, otherVars>>

\* ------------------------------------------------------------------------
\* HiveMindOrchestrator (core/orchestrator.py) and POST /deploy (api/router.py)
\* ------------------------------------------------------------------------
\* Lines 27-34: HederaClient() is tried; when it raises, hedera_client is None
\* (here: the session that does not exist).
OrchConstruct(e) ==
    LET r == HcConstruct(e) IN
    [exists |-> TRUE,
     hedera_client |-> IF r.exists
                       THEN [exists |-> TRUE, client |-> r.client,
                             operator |-> r.operator]
                       ELSE NoSession]

HiveMindOrchestrator_init ==
    /\ orch' = OrchConstruct(env)
    /\ UNCHANGED <<credVars, ledgerVars, dr, hcLast, orchLog, inputVars, svcVars>>

\* What the callers and the random sources of deploy_contract can yield:
\* random.randint(1000000, 9999999), uuid.uuid4(), time.time().
GasLimits == {4000000, 15}
ContractNumbers == {1000000, 1000001}
Uuids == {"uuid-1", "uuid-2"}
Times == {1700000000}

\* f"{contract_number:x}"
HexOfNumber(n) == CASE n = 1000000 -> "f4240" [] n = 1000001 -> "f4241"

\* int(gas_limit * 0.8)
GasUsed(gas_limit) == (gas_limit * 8) \div 10

\* Lines 59-79: the dict deploy_contract returns.  No transaction is built:
\* the contract id is made from a random number.
SimulatedDeployment(gas_limit, contract_number, tx_uuid, hash_uuid, now) ==
    [contract_id |-> <<"0.0.", contract_number>>,
     transaction_id |-> tx_uuid,
     contract_address |-> <<"0x", HexOfNumber(contract_number)>>,
     transaction_hash |-> <<"0x", hash_uuid>>,
     block_number |-> now,
     gas_used |-> GasUsed(gas_limit)]

\* HiveMindOrchestrator.deploy_contract(solidity_code, constructor_params,
\* gas_limit, initial_hbar), lines 39-82.
HiveMindOrchestrator_deploy_contract ==
    /\ orch.exists
    /\ Len(orchLog) < MaxDeployCalls
    /\ \E gas_limit \in GasLimits, contract_number \in ContractNumbers,
          tx_uuid \in Uuids, hash_uuid \in Uuids, now \in Times :
         orchLog' = Append(orchLog,
                           [via |-> "orchestrator",
                            result |-> SimulatedDeployment(gas_limit, contract_number,
                                                           tx_uuid, hash_uuid, now)])
    /\ UNCHANGED <<credVars, ledgerVars, dr, hcLast, orch, inputVars, svcVars>>

\* POST /deploy, router.py lines 174-192: a new orchestrator for the request
\* (get_orchestrator), its deploy_contract, the result as the response.
router_deploy_contract ==
    /\ Len(orchLog) < MaxDeployCalls
    /\ orch' = OrchConstruct(env)
    /\ \E gas_limit \in GasLimits, contract_number \in ContractNumbers,
          tx_uuid \in Uuids, hash_uuid \in Uuids, now \in Times :
         orchLog' = Append(orchLog,
                           [via |-> "router",
                            result |-> SimulatedDeployment(gas_limit, contract_number,
                                                           tx_uuid, hash_uuid, now)])
    /\ UNCHANGED <<credVars, ledgerVars, dr, hcLast, inputVars, svcVars>>

\* ------------------------------------------------------------------------
\* HiveMindOrchestrator.interact_with_registry (core/orchestrator.py)
\* ------------------------------------------------------------------------
\* What the callers pass (POST /registry: registry_id, action, contract_id,
\* metadata).  A metadata dict is the value under each of its keys, None for
\* a key it does not have; given = FALSE is metadata=None.
RegistryIds == {"0.0.7000", "0.0.7001"}
TrackedRegistry == "0.0.7000"
RegistryActions == {"get_contracts", "register_contract", "get_contract_details",
                    "delete_contract"}
RegContractIds == {None, "", "0.0.1234569"}
NoMetadata == [given |-> FALSE, name |-> None, type |-> None]
EmptyDict == [given |-> TRUE, name |-> None, type |-> None]
Metadatas == {NoMetadata, EmptyDict,
              [given |-> TRUE, name |-> "MyToken", type |-> "ERC20"]}

\* An exception is its class and the parts of its message.
PyException(type, message) == [type |-> type, message |-> message]
NoResult == [result |-> None]

\* Python's truth value of a str or None, and of a dict or None.
not_(v) == v = None \/ v = ""
Truthy(metadata) == metadata.given /\ (metadata.name # None \/ metadata.type # None)

\* metadata.get(key, default) if metadata else default
MetadataGet(metadata, key, default) ==
    IF Truthy(metadata) /\ metadata[key] # None THEN metadata[key] ELSE default

\* Lines 288-306: the list get_contracts returns.
GetContractsMutant(e, registry_id) ==
    [contracts |->
       << [id |-> "0.0.1234567", name |-> "Token Contract", type |-> "ERC20",
           created_at |-> "2025-07-20T10:30:00Z",
           owner |-> "0.0.12345",
           registry_id |-> registry_id],
          [id |-> "0.0.1234568", name |-> "NFT Collection", type |-> "ERC721",
           created_at |-> "2025-07-25T14:45:00Z",
           owner |-> "0.0.12345",
           registry_id |-> registry_id] >>]

GetContracts(e, registry_id) ==
    [contracts |->
       << [id |-> "0.0.1234567", name |-> "Token Contract", type |-> "ERC20",
           created_at |-> "2025-07-20T10:30:00Z",
           owner |-> getenv(e, "HEDERA_ACCOUNT_ID", None),
           registry_id |-> registry_id],
          [id |-> "0.0.1234568", name |-> "NFT Collection", type |-> "ERC721",
           created_at |-> "2025-07-25T14:45:00Z",
           owner |-> getenv(e, "HEDERA_ACCOUNT_ID", None),
           registry_id |-> registry_id] >>]

\* Lines 313-318: the dict register_contract returns (metadata or {}).
RegisterContract(registry_id, contract_id, metadata) ==
    [status |-> "registered", contract_id |-> contract_id,
     registry_id |-> registry_id,
     metadata |-> IF Truthy(metadata) THEN metadata ELSE EmptyDict]

\* Lines 325-332: the dict get_contract_details returns.
GetContractDetailsMutant(e, registry_id, contract_id, metadata) ==
    LET stored == registrySeen.registered.metadata
        used == IF Truthy(metadata) \/ registry_id # TrackedRegistry
                THEN metadata ELSE stored
    IN
    [id |-> contract_id,
     name |-> MetadataGet(used, "name", "Unknown Contract"),
     type |-> MetadataGet(used, "type", "Unknown"),
     created_at |-> "2025-07-29T12:00:00Z",
     owner |-> getenv(e, "HEDERA_ACCOUNT_ID", None),
     registry_id |-> registry_id]

GetContractDetails(e, registry_id, contract_id, metadata) ==
    [id |-> contract_id,
     name |-> MetadataGet(metadata, "name", "Unknown Contract"),
     type |-> MetadataGet(metadata, "type", "Unknown"),
     created_at |-> "2025-07-29T12:00:00Z",
     owner |-> getenv(e, "HEDERA_ACCOUNT_ID", None),
     registry_id |-> registry_id]

\* Lines 286-336, the body of the try: the branch of each action.
RegistryDispatchMutant(e, registry_id, action, contract_id, metadata) ==
    CASE action = "register_contract" ->
           IF not_(contract_id)
           THEN [result |-> NoResult,
                 error |-> PyException("ValueError",
                             <<"Contract ID is required for registration">>)]
           ELSE [result |-> RegisterContract(registry_id, contract_id, metadata),
                 error |-> NoError]
      [] action = "get_contract_details" ->
           IF not_(contract_id)
           THEN [result |-> NoResult,
                 error |-> PyException("ValueError",
                             <<"Contract ID is required for getting details">>)]
           ELSE [result |-> GetContractDetails(e, registry_id, contract_id, metadata),
                 error |-> NoError]
      [] OTHER ->
           [result |-> GetContracts(e, registry_id), error |-> NoError]

RegistryDispatch(e, registry_id, action, contract_id, metadata) ==
    CASE action = "get_contracts" ->
           [result |-> GetContracts(e, registry_id), error |-> NoError]
      [] action = "register_contract" ->
           IF not_(contract_id)
           THEN [result |-> NoResult,
                 error |-> PyException("ValueError",
                             <<"Contract ID is required for registration">>)]
           ELSE [result |-> RegisterContract(registry_id, contract_id, metadata),
                 error |-> NoError]
      [] action = "get_contract_details" ->
           IF not_(contract_id)
           THEN [result |-> NoResult,
                 error |-> PyException("ValueError",
                             <<"Contract ID is required for getting details">>)]
           ELSE [result |-> GetContractDetails(e, registry_id, contract_id, metadata),
                 error |-> NoError]
      [] OTHER ->
           [result |-> NoResult,
            error |-> PyException("ValueError", <<"Unsupported action: ", action>>)]

\* Lines 338-339: except Exception as e: raise Exception(f"Failed ...: {str(e)}")
RegistryWrap(r) ==
    IF r.error = NoError THEN r
    ELSE [result |-> NoResult,
          error |-> PyException("Exception",
                      <<"Failed to interact with registry: ">> \o r.error.message)]

\* interact_with_registry(registry_id, action, contract_id, metadata),
\* lines 263-339.
InteractWithRegistry(e, registry_id, action, contract_id, metadata) ==
    RegistryWrap(RegistryDispatch(e, registry_id, action, contract_id, metadata))

NoRegistryCall ==
    [action |-> None, registry_id |-> None, contract_id |-> None,
     metadata |-> NoMetadata, result |-> NoResult, error |-> NoError]
NoRegistration == [contract_id |-> None, metadata |-> NoMetadata]
\* What the callers of one registry, TrackedRegistry, have seen of it so far:
\* the first listing since the last registration, whether it was listed again
\* since, and the registration made after that listing.
NothingSeen == [listed |-> NoResult, again |-> FALSE, registered |-> NoRegistration]

\* One call of interact_with_registry.  The method builds no transaction and
\* assigns no attribute; registrySeen is the callers' record of what they were
\* given and what they registered.
interact_with_registry ==
    /\ orch.exists
    /\ \E registry_id \in RegistryIds, action \in RegistryActions,
          contract_id \in RegContractIds, metadata \in Metadatas :
         LET r == InteractWithRegistry(env, registry_id, action, contract_id, metadata) IN
         /\ registryLast' = [action |-> action, registry_id |-> registry_id,
                        contract_id |-> contract_id, metadata |-> metadata,
                        result |-> r.result, error |-> r.error]
         /\ registrySeen' =
              IF r.error # NoError \/ registry_id # TrackedRegistry THEN registrySeen
              ELSE CASE action = "get_contracts" ->
                          IF registrySeen.listed # NoResult
                             /\ registrySeen.registered = NoRegistration
                          THEN [registrySeen EXCEPT !.again = TRUE]
                          ELSE [listed |-> r.result, again |-> FALSE,
                                registered |-> NoRegistration]
                     [] action = "register_contract" ->
                          [registrySeen EXCEPT !.registered =
                             [contract_id |-> contract_id, metadata |-> metadata]]
                     [] OTHER -> registrySeen
    /\ UNCHANGED <<credVars, ledgerVars, dr, hcLast, orch, orchLog, inputVars,
                   hcsVars, toolVars>>

\* monkeypatch.setenv("HEDERA_ACCOUNT_ID", ...): the operator account named
\* by the environment changes while the process runs.
setenv_account_id ==
    /\ envChanges < MaxEnvChanges
    /\ \E a \in {None, "0.0.12345"} :
         /\ a # env["HEDERA_ACCOUNT_ID"]
         /\ env' = [env EXCEPT !["HEDERA_ACCOUNT_ID"] = a]
    /\ envChanges' = envChanges + 1
    /\ UNCHANGED <<hc, hcCalls, hcError, reg, regCalls, regError, ledgerVars, dr, hcLast,
                   otherVars>>

\* ------------------------------------------------------------------------
\* Agent collaboration over HCS-10 (core/orchestrator.py)
\* ------------------------------------------------------------------------
Capabilities == {"security_audit"}
AgentIds == {"0.0.agent1", "0.0.agent2"}
HcsTopicIds == {"0.0.topic123"}
ContractAddresses == {"0.0.1234567"}
AuditRequests == {"audit 0.0.1234567"}

\* An audit report is a dict: its keys and the value under each.
ReportKeys == {"vulnerabilities", "severity", "recommendations"}
Report(keys, vulnerabilities, severity, recommendations) ==
    [keys |-> keys, vulnerabilities |-> vulnerabilities, severity |-> severity,
     recommendations |-> recommendations]

\* The dict _hcs10_wait_for_response returns, lines 359-363.
SimulatedResponse ==
    Report(ReportKeys, <<"reentrancy", "unchecked-calls">>, "high",
           <<"Implement checks-effects-interactions pattern">>)

\* The dict agent_collaboration returns, lines 257-261.
SimulatedCollaboration ==
    Report(ReportKeys,
           <<"Reentrancy vulnerability in withdraw function", "Unchecked return values">>,
           "Medium",
           <<"Use ReentrancyGuard", "Check return values of external calls">>)

\* The reports a caller may hand to _parse_audit_report: {} among them.
EmptyReport == Report({}, <<>>, "", <<>>)
Reports == {SimulatedResponse, EmptyReport}

\* report.get(key, default)
ReportGet(report, key, default) == IF key \in report.keys THEN report[key] ELSE default

\* _parse_audit_report(report), lines 365-372.
ParseAuditReport(report) ==
    Report(ReportKeys,
           ReportGet(report, "vulnerabilities", <<>>),
           ReportGet(report, "severity", "unknown"),
           ReportGet(report, "recommendations", <<>>))

\* One entry of hcsLog: the method called, its argument, what it returned.
HcsStep(op, arg, ret) == [op |-> op, arg |-> arg, ret |-> ret, error |-> NoError]

\* _hcs10_discover_agents(capability), lines 341-344.
hcs10_discover_agents ==
    /\ orch.exists
    /\ Len(hcsLog) < MaxHcsSteps
    /\ \E capability \in Capabilities :
         hcsLog' = Append(hcsLog, HcsStep("_hcs10_discover_agents", capability,
                                          <<"0.0.agent1", "0.0.agent2">>))
    /\ UNCHANGED <<credVars, ledgerVars, dr, hcLast, orch, orchLog, inputVars,
                   registryVars, hcsTopic, toolVars>>

\* _hcs10_connection_request(agent_id), lines 346-349.
hcs10_connection_request ==
    /\ orch.exists
    /\ Len(hcsLog) < MaxHcsSteps
    /\ \E agent_id \in AgentIds :
         hcsLog' = Append(hcsLog, HcsStep("_hcs10_connection_request", agent_id,
                                          "0.0.topic123"))
    /\ UNCHANGED <<credVars, ledgerVars, dr, hcLast, orch, orchLog, inputVars,
                   registryVars, hcsTopic, toolVars>>

\* _hcs10_submit_message(topic_id, message), lines 351-354: the body is pass,
\* nothing reaches the topic.
hcs10_submit_message ==
    /\ orch.exists
    /\ Len(hcsLog) < MaxHcsSteps
    /\ \E topic_id \in HcsTopicIds, message \in AuditRequests :
         hcsLog' = Append(hcsLog, HcsStep("_hcs10_submit_message",
                                          <<topic_id, message>>, None))
    /\ UNCHANGED <<credVars, ledgerVars, dr, hcLast, orch, orchLog, inputVars,
                   registryVars, hcsTopic, toolVars>>

\* _hcs10_wait_for_response(topic_id), lines 356-363: no deadline is taken,
\* the topic is not read, the dict is returned at once.
hcs10_wait_for_response ==
    /\ orch.exists
    /\ Len(hcsLog) < MaxHcsSteps
    /\ \E topic_id \in HcsTopicIds :
         hcsLog' = Append(hcsLog, HcsStep("_hcs10_wait_for_response", topic_id,
                                          SimulatedResponse))
    /\ UNCHANGED <<credVars, ledgerVars, dr, hcLast, orch, orchLog, inputVars,
                   registryVars, hcsTopic, toolVars>>

\* _parse_audit_report(report), lines 365-372.
parse_audit_report ==
    /\ orch.exists
    /\ Len(hcsLog) < MaxHcsSteps
    /\ \E report \in Reports :
         hcsLog' = Append(hcsLog, HcsStep("_parse_audit_report", report,
                                          ParseAuditReport(report)))
    /\ UNCHANGED <<credVars, ledgerVars, dr, hcLast, orch, orchLog, inputVars,
                   registryVars, hcsTopic, toolVars>>

\* agent_collaboration(contract_address), lines 245-261: none of the methods
\* above is called.
agent_collaboration ==
    /\ orch.exists
    /\ Len(hcsLog) < MaxHcsSteps
    /\ \E contract_address \in ContractAddresses :
         hcsLog' = Append(hcsLog, HcsStep("agent_collaboration", contract_address,
                                          SimulatedCollaboration))
    /\ UNCHANGED <<credVars, ledgerVars, dr, hcLast, orch, orchLog, inputVars,
                   registryVars, hcsTopic, toolVars>>

\* ------------------------------------------------------------------------
\* security_audit and compile_contract (core/orchestrator.py)
\* ------------------------------------------------------------------------
\* A source text is a sequence of tokens; None is no text at all (a caller
\* passing None for code).
CodeTokens == {" ", "pragma solidity", "contract", "interface", "library",
               "{", "}", "// contract"}
Sources == UNION {[1..n -> CodeTokens] : n \in 0..MaxCodeLen}
NoSource == <<None>>

\* str.strip() == "": nothing but whitespace.
StripIsEmpty(code) == \A i \in 1..Len(code) : code[i] = " "

\* word in code: the substring test, true of a word inside a comment too.
TokenHas(token, word) ==
    \/ token = word
    \/ token = "// contract" /\ word = "contract"
Contains(code, word) == \E i \in 1..Len(code) : TokenHas(code[i], word)

\* code.count(ch)
CountChar(code, ch) == Cardinality({i \in 1..Len(code) : code[i] = ch})

\* Lines 147-162: the errors the validation collects, in order.
CompileErrors(code) ==
    (IF StripIsEmpty(code) THEN <<"Empty contract code provided">> ELSE <<>>)
    \o (IF ~Contains(code, "contract") /\ ~Contains(code, "interface")
           /\ ~Contains(code, "library")
        THEN <<"No contract, interface, or library declaration found">> ELSE <<>>)
    \o (IF CountChar(code, "{") # CountChar(code, "}")
        THEN <<"Mismatched braces in contract code">> ELSE <<>>)

\* Lines 154-155.
CompileWarnings(code) ==
    IF ~Contains(code, "pragma solidity")
    THEN <<"No pragma solidity directive found">> ELSE <<>>

\* Lines 176-203: the literal bytecode (its first bytes) and the literal ABI.
MockBytecode == "0x608060405234801561001057600080fd5b50"
MockAbi == "getOwner, changeOwner"

\* Lines 140-213, the body of the try: code.strip() on None raises
\* AttributeError; otherwise one of the two dicts is returned.
CompileTry(code) ==
    IF code = NoSource
    THEN [error |-> PyException("AttributeError", <<"'NoneType' object has no attribute 'strip'">>),
          result |-> NoResult]
    ELSE IF CompileErrors(code) # <<>>
    THEN [error |-> NoError,
          result |-> [success |-> FALSE, bytecode |-> None, abi |-> None,
                      errors |-> CompileErrors(code),
                      warnings |-> CompileWarnings(code)]]
    ELSE [error |-> NoError,
          result |-> [success |-> TRUE, bytecode |-> MockBytecode, abi |-> MockAbi,
                      errors |-> <<>>, warnings |-> CompileWarnings(code)]]

\* compile_contract(code, ...), lines 127-225: except Exception returns the
\* failure dict, lines 215-225.
CompileContract(code) ==
    LET t == CompileTry(code) IN
    IF t.error = NoError
    THEN [raised |-> FALSE, result |-> t.result]
    ELSE [raised |-> FALSE,
          result |-> [success |-> FALSE, bytecode |-> None, abi |-> None,
                      errors |-> << <<"Compilation failed: ">> \o t.error.message >>,
                      warnings |-> <<>>]]

NoCompile == [called |-> FALSE, code |-> NoSource, raised |-> FALSE,
              result |-> NoResult]

compile_contract ==
    /\ orch.exists
    /\ \E code \in codeChoices :
         compileLast' = [called |-> TRUE, code |-> code,
                         raised |-> CompileContract(code).raised,
                         result |-> CompileContract(code).result]
    /\ UNCHANGED <<credVars, ledgerVars, dr, hcLast, orch, orchLog, inputVars,
                   registryVars, hcsVars, auditLast>>

\* What the Groq API can do with one chat completion: answer with a text, or
\* fail (the SDK raises).
AiTexts == {"Mock AI analysis", ""}

\* _simulate_static_analysis(solidity_code), lines 227-243.
SimulateStaticAnalysis(solidity_code) ==
    [reentrancy |-> <<"Potential reentrancy in withdraw function">>,
     integer_overflow |-> <<>>,
     unchecked_calls |-> <<"External call without check at line 42">>]

\* Lines 101-107: the one chat completion request.
ChatCompletionRequest(solidity_code) ==
    [model |-> "codellama-70b",
     messages |-> << [role |-> "system",
                      content |-> <<"Analyze Solidity security vulnerabilities:\n">>
                                  \o solidity_code] >>]

\* Lines 109-112: the dict security_audit returns.
AuditResultMutant(static_results, ai_text) ==
    [static_analysis |-> [static_results EXCEPT !.integer_overflow = <<ai_text>>],
     ai_analysis |-> ai_text]

AuditResult(static_results, ai_text) ==
    [static_analysis |-> static_results, ai_analysis |-> ai_text]

NoAudit == [called |-> FALSE, code |-> NoSource, calls |-> <<>>,
            returned |-> FALSE, result |-> NoResult, error |-> NoError]

\* security_audit(solidity_code), lines 84-112.  An exception of the Groq
\* client is not caught here.
security_audit ==
    /\ orch.exists
    /\ \E solidity_code \in codeChoices :
         LET static_results == SimulateStaticAnalysis(solidity_code)
             static_call == [fn |-> "_simulate_static_analysis",
                             arg |-> solidity_code]
             ai_call == [fn |-> "groq_client.chat.completions.create",
                         arg |-> ChatCompletionRequest(solidity_code)]
         IN
         \/ \E ai_text \in AiTexts :
              auditLast' = [called |-> TRUE, code |-> solidity_code,
                            calls |-> << [call |-> static_call, ret |-> static_results],
                                         [call |-> ai_call, ret |-> ai_text] >>,
                            returned |-> TRUE,
                            result |-> AuditResult(static_results, ai_text),
                            error |-> NoError]
         \/ auditLast' = [called |-> TRUE, code |-> solidity_code,
                          calls |-> << [call |-> static_call, ret |-> static_results],
                                       [call |-> ai_call, ret |-> None] >>,
                          returned |-> FALSE,
                          result |-> NoResult,
                          error |-> PyException("APIError", <<"groq">>)]
    /\ UNCHANGED <<credVars, ledgerVars, dr, hcLast, orch, orchLog, inputVars,
                   registryVars, hcsVars, compileLast>>

\* No call of the orchestrator's other methods has been made.
SvcStart ==
    /\ registryLast = NoRegistryCall
    /\ registrySeen = NothingSeen
    /\ hcsLog = <<>>
    /\ hcsTopic = [t \in HcsTopicIds |-> <<>>]
    /\ auditLast = NoAudit
    /\ compileLast = NoCompile

\* ------------------------------------------------------------------------
\* Specification
\* ------------------------------------------------------------------------
vars == <<env, envChanges, hc, hcCalls, hcError, reg, regCalls, regError,
          files, contracts, topics, txLog, dr, hcLast, orch, orchLog,
          paramChoices, messageChoices, codeChoices, registryLast, registrySeen,
          hcsLog, hcsTopic, auditLast, compileLast>>

\* The interpreter starts: nothing constructed, an empty ledger.
Init ==
    /\ env \in [HEDERA_NETWORK : NetworkNames, HEDERA_ACCOUNT_ID : AccountStrs,
                HEDERA_PRIVATE_KEY : KeyStrs, GROQ_API_KEY : {None, "gsk"}]
    /\ envChanges = 0
    /\ hc = NoSession
    /\ hcCalls = <<>>
    /\ hcError = None
    /\ reg = NoSession
    /\ regCalls = <<>>
    /\ regError = None
    /\ files = <<>>
    /\ contracts = <<>>
    /\ topics = <<>>
    /\ txLog = <<>>
    /\ dr = DrStart
    /\ hcLast = NoCall
    /\ orch = NoOrchestrator
    /\ orchLog = <<>>
    /\ paramChoices = {<<>>}
    /\ messageChoices = {<<Item("a", PyValue("int", "1"))>>}
    /\ codeChoices = {<<>>}
    /\ SvcStart

\* Credentials and session: construction, key use, change of the environment.
Next ==
    \/ HederaClient_init
    \/ deploy_registry_setup
    \/ setenv
    \/ create_topic
    \/ sign_message

Spec == Init /\ [][Next]_vars

\* Deployment: both clients constructed from a valid environment.
DeployEnvs == [HEDERA_NETWORK : {None, "MainNet"}, HEDERA_ACCOUNT_ID : {"0.0.12345"},
               HEDERA_PRIVATE_KEY : {<<"0x", "aa">>}, GROQ_API_KEY : {"gsk"}]

InitDeploy ==
    /\ env \in DeployEnvs
    /\ envChanges = 0
    /\ LET r == HcConstruct(env) IN
         /\ hc = [exists |-> r.exists, client |-> r.client, operator |-> r.operator]
         /\ hcCalls = r.calls
         /\ hcError = r.error
    /\ LET r == RegSetup(env) IN
         /\ reg = [exists |-> r.exists, client |-> r.client, operator |-> r.operator]
         /\ regCalls = r.calls
         /\ regError = r.error
    /\ files = <<>>
    /\ contracts = <<>>
    /\ topics = <<>>
    /\ txLog = <<>>
    /\ dr = DrStart
    /\ hcLast = NoCall
    /\ orch = NoOrchestrator
    /\ orchLog = <<>>
    /\ paramChoices = {<<>>}
    /\ messageChoices = {<<Item("a", PyValue("int", "1"))>>}
    /\ codeChoices = {<<>>}
    /\ SvcStart

NextDeploy ==
    \/ dr_file_create
    \/ dr_file_append
    \/ dr_contract_create
    \/ create_file
    \/ HederaClient_deploy_contract

SpecDeploy == InitDeploy /\ [][NextDeploy]_vars

\* Signing and verifying: a session constructed from a raw Ed25519 key.
MsgEnvs == [HEDERA_NETWORK : {"testnet"}, HEDERA_ACCOUNT_ID : {"0.0.12345"},
            HEDERA_PRIVATE_KEY : {<<"aa">>, <<"0x", "aa">>, <<"bb">>},
            GROQ_API_KEY : {"gsk"}]

InitMsg ==
    /\ env \in MsgEnvs
    /\ envChanges = 0
    /\ LET r == HcConstruct(env) IN
         /\ hc = [exists |-> r.exists, client |-> r.client, operator |-> r.operator]
         /\ hcCalls = r.calls
         /\ hcError = r.error
    /\ reg = NoSession
    /\ regCalls = <<>>
    /\ regError = None
    /\ files = <<>>
    /\ contracts = <<>>
    /\ topics = <<>>
    /\ txLog = <<>>
    /\ dr = DrStart
    /\ hcLast = NoCall
    /\ orch = NoOrchestrator
    /\ orchLog = <<>>
    /\ paramChoices = {<<>>}
    /\ messageChoices = Messages
    /\ codeChoices = {<<>>}
    /\ SvcStart

NextMsg ==
    \/ sign_message
    \/ verify_message

SpecMsg == InitMsg /\ [][NextMsg]_vars

\* The ledger primitives of one session.  Earlier sessions left a file, a
\* contract made from it and a topic whose submit key is the key aa.
PrimEnvs == [HEDERA_NETWORK : {"testnet", "MainNet"}, HEDERA_ACCOUNT_ID : {"0.0.12345"},
             HEDERA_PRIVATE_KEY : {<<"aa">>, <<"bb">>}, GROQ_API_KEY : {"gsk"}]

InitPrim ==
    /\ env \in PrimEnvs
    /\ envChanges = 0
    /\ LET r == HcConstruct(env) IN
         /\ hc = [exists |-> r.exists, client |-> r.client, operator |-> r.operator]
         /\ hcCalls = r.calls
         /\ hcError = r.error
    /\ reg = NoSession
    /\ regCalls = <<>>
    /\ regError = None
    /\ files = << <<54, 102>> >>
    /\ contracts = << [fileId |-> 1, bytecode |-> <<54, 102>>] >>
    /\ topics = << [memo |-> "HiveMind Topic",
                    submitKey |-> PublicKey(PrivateKey("ED25519", <<"aa">>)),
                    messages |-> <<>>] >>
    /\ txLog = <<>>
    /\ dr = DrStart
    /\ hcLast = NoCall
    /\ orch = NoOrchestrator
    /\ orchLog = <<>>
    /\ paramChoices = ParamDicts
    /\ messageChoices = Messages
    /\ codeChoices = {<<>>}
    /\ SvcStart

NextPrim ==
    \/ create_topic
    \/ submit_message
    \/ create_file
    \/ HederaClient_deploy_contract
    \/ execute_contract

SpecPrim == InitPrim /\ [][NextPrim]_vars

\* The orchestrator and the /deploy endpoint: credentials set or missing.
OrchEnvs == [HEDERA_NETWORK : {"testnet"}, HEDERA_ACCOUNT_ID : {None, "0.0.12345"},
             HEDERA_PRIVATE_KEY : {NoneKey, <<"aa">>}, GROQ_API_KEY : {"gsk"}]

InitOrch ==
    /\ env \in OrchEnvs
    /\ envChanges = 0
    /\ hc = NoSession
    /\ hcCalls = <<>>
    /\ hcError = None
    /\ reg = NoSession
    /\ regCalls = <<>>
    /\ regError = None
    /\ files = <<>>
    /\ contracts = <<>>
    /\ topics = <<>>
    /\ txLog = <<>>
    /\ dr = DrStart
    /\ hcLast = NoCall
    /\ orch = NoOrchestrator
    /\ orchLog = <<>>
    /\ paramChoices = {<<>>}
    /\ messageChoices = {<<Item("a", PyValue("int", "1"))>>}
    /\ codeChoices = {<<>>}
    /\ SvcStart

NextOrch ==
    \/ HiveMindOrchestrator_init
    \/ HiveMindOrchestrator_deploy_contract
    \/ router_deploy_contract

SpecOrch == InitOrch /\ [][NextOrch]_vars

\* The registry adapter: an orchestrator, calls of interact_with_registry,
\* a change of the operator account in the environment.
RegistryEnvs == [HEDERA_NETWORK : {"testnet"}, HEDERA_ACCOUNT_ID : {"0.0.12345"},
                 HEDERA_PRIVATE_KEY : {<<"aa">>}, GROQ_API_KEY : {"gsk"}]

InitRegistry ==
    /\ env \in RegistryEnvs
    /\ envChanges = 0
    /\ hc = NoSession
    /\ hcCalls = <<>>
    /\ hcError = None
    /\ reg = NoSession
    /\ regCalls = <<>>
    /\ regError = None
    /\ files = <<>>
    /\ contracts = <<>>
    /\ topics = <<>>
    /\ txLog = <<>>
    /\ dr = DrStart
    /\ hcLast = NoCall
    /\ orch = NoOrchestrator
    /\ orchLog = <<>>
    /\ paramChoices = {<<>>}
    /\ messageChoices = {<<Item("a", PyValue("int", "1"))>>}
    /\ codeChoices = {<<>>}
    /\ SvcStart

NextRegistry ==
    \/ HiveMindOrchestrator_init
    \/ interact_with_registry
    \/ setenv_account_id

SpecRegistry == InitRegistry /\ [][NextRegistry]_vars

\* Agent collaboration: the HCS-10 methods and agent_collaboration, on a
\* topic that holds no message or one from before the round.
ServiceEnvs == [HEDERA_NETWORK : {"testnet"}, HEDERA_ACCOUNT_ID : {"0.0.12345"},
                HEDERA_PRIVATE_KEY : {NoneKey, <<"aa">>}, GROQ_API_KEY : {"gsk"}]

InitCollab ==
    /\ env \in ServiceEnvs
    /\ envChanges = 0
    /\ hc = NoSession
    /\ hcCalls = <<>>
    /\ hcError = None
    /\ reg = NoSession
    /\ regCalls = <<>>
    /\ regError = None
    /\ files = <<>>
    /\ contracts = <<>>
    /\ topics = <<>>
    /\ txLog = <<>>
    /\ dr = DrStart
    /\ hcLast = NoCall
    /\ orch = NoOrchestrator
    /\ orchLog = <<>>
    /\ paramChoices = {<<>>}
    /\ messageChoices = {<<Item("a", PyValue("int", "1"))>>}
    /\ codeChoices = {<<>>}
    /\ registryLast = NoRegistryCall
    /\ registrySeen = NothingSeen
    /\ hcsLog = <<>>
    /\ hcsTopic \in [HcsTopicIds -> {<<>>, <<[at |-> 0, message |-> SimulatedResponse]>>}]
    /\ auditLast = NoAudit
    /\ compileLast = NoCompile

NextCollab ==
    \/ HiveMindOrchestrator_init
    \/ hcs10_discover_agents
    \/ hcs10_connection_request
    \/ hcs10_submit_message
    \/ hcs10_wait_for_response
    \/ parse_audit_report
    \/ agent_collaboration

SpecCollab == InitCollab /\ [][NextCollab]_vars

\* Audit and compilation of one source text, drawn at the start.
InitTools ==
    /\ env \in ServiceEnvs
    /\ envChanges = 0
    /\ hc = NoSession
    /\ hcCalls = <<>>
    /\ hcError = None
    /\ reg = NoSession
    /\ regCalls = <<>>
    /\ regError = None
    /\ files = <<>>
    /\ contracts = <<>>
    /\ topics = <<>>
    /\ txLog = <<>>
    /\ dr = DrStart
    /\ hcLast = NoCall
    /\ orch = NoOrchestrator
    /\ orchLog = <<>>
    /\ paramChoices = {<<>>}
    /\ messageChoices = {<<Item("a", PyValue("int", "1"))>>}
    /\ codeChoices \in {{code} : code \in Sources \cup {NoSource}}
    /\ SvcStart

NextTools ==
    \/ HiveMindOrchestrator_init
    \/ security_audit
    \/ compile_contract

SpecTools == InitTools /\ [][NextTools]_vars

\* ------------------------------------------------------------------------
\* Properties of the upload and the deployment (SpecDeploy)
\* ------------------------------------------------------------------------
Last(q) == q[Len(q)]
Min(a, b) == IF a <= b THEN a ELSE b
Ceil(a, b) == (a + b - 1) \div b

\* Positions in txLog of the transactions of deploy_registry.deploy_contract.
DrIdx == {i \in 1..Len(txLog) : txLog[i].by = "deploy_registry"}
HcIdx == {i \in 1..Len(txLog) : txLog[i].by = "HederaClient"}
DrTxs == SelectSeq(txLog, LAMBDA t : t.by = "deploy_registry")
DrFileTxs == SelectSeq(DrTxs, LAMBDA t : t.type \in {"FileCreate", "FileAppend"})

\* deploy_contract is past line 114: the create and the append have receipts.
DrUploadDone ==
    \/ dr.pc \in {"contract_create", "returned"}
    \/ dr.pc = "raised" /\ dr.stage = "contract_create"

CreateFileDone == hcLast.op = "create_file" /\ hcLast.error = NoError

\* C1: once an upload has completed (deploy_registry: create and append
\* committed; HederaClient.create_file: returned a file id), the ledger file
\* holds exactly the bytes of the payload, whatever its length.
C1_FileEqualsPayload ==
    /\ DrUploadDone =>
         /\ FileExists(dr.bytecode_file_id)
         /\ files[dr.bytecode_file_id] = encode(dr.bytecode)
    /\ CreateFileDone =>
         /\ FileExists(hcLast.ret)
         /\ files[hcLast.ret] = encode(hcLast.content)

C1_Witness ==
    /\ dr.pc = "returned"
    /\ Len(dr.bytecode) = 2
    /\ files[dr.bytecode_file_id] = <<54, 102>>
    /\ CreateFileDone
    /\ hcLast.content = <<"e-acute", "a">>
    /\ files[hcLast.ret] = <<195, 169, 97>>

Assembled(f, i) ==
    \/ \E j \in 1..(i - 1) :
         /\ txLog[j].by = "HederaClient" /\ txLog[j].type = "FileCreate"
         /\ txLog[j].ok /\ txLog[j].fileId = f
    \/ \E j, k \in 1..(i - 1) :
         /\ j < k
         /\ txLog[j].by = "deploy_registry" /\ txLog[j].type = "FileCreate"
         /\ txLog[j].ok /\ txLog[j].fileId = f
         /\ txLog[k].by = "deploy_registry" /\ txLog[k].type = "FileAppend"
         /\ txLog[k].ok /\ txLog[k].fileId = f

FailedContractCreateStep ==
    /\ Len(txLog') > Len(txLog)
    /\ Last(txLog').type = "ContractCreate"
    /\ ~Last(txLog').ok

Range(q) == {q[i] : i \in 1..Len(q)}
Count(q, x) == Cardinality({i \in 1..Len(q) : q[i] = x})

\* The configured network is neither testnet nor mainnet, in any letter case.
BadNetwork(e) ==
    lower(getenv(e, "HEDERA_NETWORK", "testnet")) \notin {"testnet", "mainnet"}

\* C6: with a network name that is neither testnet nor mainnet, neither
\* resolver (HederaClient.__init__, the setup of deploy_registry) creates a
\* client, sets an operator or reaches the ledger; it fails with ValueError.
C6_InvalidNetworkFails ==
    BadNetwork(env) =>
        /\ ~hc.exists /\ hcCalls = <<>> /\ hcError \in {None, "ValueError"}
        /\ ~reg.exists /\ regCalls = <<>> /\ regError \in {None, "ValueError"}
        /\ txLog = <<>>

\* The private-key parses of a call trace are in the order ED25519, ECDSA:
\* an ECDSA parse directly follows an ED25519 parse.
KeyParseOrder(calls) ==
    \A i \in 1..Len(calls) :
      calls[i] = "PrivateKey.fromStringECDSA" =>
         i > 1 /\ calls[i - 1] = "PrivateKey.fromString"

\* The operator key of a resolved session is parsed under the first scheme
\* of (ED25519, ECDSA) under which the key string parses.
FirstSchemeKey(op) ==
    /\ ParsesED25519(op.privateKey.material) \/ ParsesECDSA(op.privateKey.material)
    /\ op.privateKey.scheme =
         IF ParsesED25519(op.privateKey.material) THEN "ED25519" ELSE "ECDSA"

\* C7: both resolvers try ED25519 first and ECDSA only after it failed; when
\* both fail there is no operator; otherwise the operator key is the key
\* parsed under the first scheme that succeeded.
C7_Ed25519ThenEcdsa ==
    /\ KeyParseOrder(hcCalls)
    /\ hc.exists => (FirstSchemeKey(hc.operator) /\ Last(hcCalls) = "setOperator")
    /\ hcError = "PrivateKeyError" =>
         (~hc.exists /\ hc.operator = NoOperator /\ "setOperator" \notin Range(hcCalls))
    /\ KeyParseOrder(regCalls)
    /\ reg.exists => (FirstSchemeKey(reg.operator) /\ Last(regCalls) = "setOperator")
    /\ regError = "PrivateKeyError" =>
         (~reg.exists /\ reg.operator = NoOperator /\ "setOperator" \notin Range(regCalls))

\* The environment holds a recognised network and parsable credentials.
GoodEnv(e) ==
    /\ ~BadNetwork(e)
    /\ AccountIdParses(e["HEDERA_ACCOUNT_ID"])
    /\ e["HEDERA_PRIVATE_KEY"] # NoneKey
    /\ \/ ParsesED25519(StripPrefix(e["HEDERA_PRIVATE_KEY"]))
       \/ ParsesECDSA(StripPrefix(e["HEDERA_PRIVATE_KEY"]))

\* A step that ran HederaClient() and left something new behind.
HcConstructed == hc' # hc \/ hcCalls' # hcCalls \/ hcError' # hcError
RegConstructed == reg' # reg \/ regCalls' # regCalls \/ regError' # regError

Missing(e) == Falsy(e["HEDERA_ACCOUNT_ID"]) \/ FalsyKey(e["HEDERA_PRIVATE_KEY"])

\* C9: with the account id or the private key missing, validate_environment
\* is false and each resolver that runs fails: no operator is set, no session
\* exists afterwards, and no transaction has reached the ledger.
C9_MissingCredentialsFail ==
    [][ Missing(env) =>
          /\ ~validate_environment(env)
          /\ HcConstructed =>
                /\ ~hc'.exists
                /\ hc'.operator = NoOperator
                /\ hcError' \in {"ValueError", "AccountIdError", "PrivateKeyError"}
                /\ "setOperator" \notin Range(hcCalls')
                /\ txLog' = txLog
          /\ RegConstructed =>
                /\ ~reg'.exists
                /\ reg'.operator = NoOperator
                /\ regError' = "ValueError"
                /\ regCalls' = <<>>
                /\ txLog' = txLog
      ]_vars

C9_Witness ==
    /\ env["HEDERA_ACCOUNT_ID"] = "0.0.12345"
    /\ env["HEDERA_PRIVATE_KEY"] = NoneKey
    /\ envChanges = 0
    /\ hcError = "PrivateKeyError"
    /\ hcCalls = <<"Client.forTestnet", "AccountId.fromString", "PrivateKey.fromString",
                   "PrivateKey.fromStringECDSA">>
    /\ ~hc.exists
    /\ regError = "ValueError"
    /\ ~reg.exists

\* C10: the key sign_message and create_topic work with is the private key
\* the operator of the session was set with at construction.
C10_OperatorKeyUsed ==
    (hcLast.op \in {"sign_message", "create_topic"} /\ hcLast.key # NoKey) =>
        hcLast.key = hc.operator.privateKey

\* ------------------------------------------------------------------------
\* Properties of signing and verifying (SpecMsg)
\* ------------------------------------------------------------------------
\* The keys sign_message can sign with.
SignerKeys == {PrivateKey("ED25519", <<"aa">>), PrivateKey("ED25519", <<"bb">>)}
Serializable(m) == \A i \in 1..Len(m) : m[i].v # Unserializable

\* The canonical serialization of a message: JSON with sorted keys, UTF-8.
Canonical(m) == encode(json_dumps(m, TRUE).text)

\* The signature string sign_message returns for message m under key K.
SignatureOf(m, K) ==
    SignMessage([HEDERA_PRIVATE_KEY |-> K.material], m).signature

\* C11: when verify_message is given the signature sign_message made for a
\* message m with key K, a well-formed public key and a serializable
\* message, it returns true if the public key is that of K and the message
\* is m (equal as a map), and false if the public key is another one or the
\* canonical serialization of the message differs from that of m.
C11_SignVerifyRoundTrip ==
    hcLast.op = "verify_message" =>
      \A m \in Messages, K \in SignerKeys :
        ( /\ Serializable(m) /\ Serializable(hcLast.message)
          /\ hcLast.signature = SignatureOf(m, K)
          /\ hcLast.public_key \in {PublicKeyHex(J) : J \in SignerKeys} ) =>
            /\ hcLast.error = NoError
            /\ (hcLast.public_key = PublicKeyHex(K)
                  /\ AsMap(hcLast.message) = AsMap(m)) => hcLast.verified
            /\ (hcLast.public_key # PublicKeyHex(K)
                  \/ Canonical(hcLast.message) # Canonical(m)) => ~hcLast.verified

\* A message whose insertion order is not the sorted one was signed with the
\* key aa and is verified with the public key of aa.
C11_Witness ==
    /\ hcLast.op = "verify_message"
    /\ hcLast.message = <<Item("b", PyValue("int", "1")), Item("a", PyValue("int", "2"))>>
    /\ hcLast.signature = SignatureOf(hcLast.message, PrivateKey("ED25519", <<"aa">>))
    /\ hcLast.public_key = <<"aa">>
    /\ hcLast.verified

\* C12: verify_message never raises: every call returns a boolean.
C12_VerifyNeverRaises ==
    hcLast.op = "verify_message" =>
        (hcLast.error = NoError /\ hcLast.verified \in BOOLEAN)

\* ------------------------------------------------------------------------
\* Properties of the ledger primitives (Spec, SpecPrim)
\* ------------------------------------------------------------------------
\* C13: the submit key of the topic transaction a session's create_topic
\* executes is the public key of the private key the operator of the
\* session was set with, under the scheme it was parsed with.
C13_SubmitKeyIsOperatorKey ==
    (hcLast.op = "create_topic" /\ hcLast.txn # 0) =>
        /\ txLog[hcLast.txn].type = "TopicCreate"
        /\ PublicKey(txLog[hcLast.txn].key) = PublicKey(hc.operator.privateKey)

\* C14: the bytes submit_message puts into its transaction are the bytes
\* sign_message signs for the same message, and every message equal to it as
\* a map is submitted with the same bytes.
C14_SubmitsSignedBytes ==
    (hcLast.op = "submit_message" /\ hcLast.txn # 0) =>
        /\ txLog[hcLast.txn].contents = encode(sign_message_str(hcLast.message).text)
        /\ \A m \in Messages :
              (Serializable(m) /\ AsMap(m) = AsMap(hcLast.message)) =>
                 txLog[hcLast.txn].contents = encode(submit_message_str(m).text)

Primitives == {"create_topic", "submit_message", "create_file", "deploy_contract",
               "execute_contract"}

\* C15: a primitive that returned a value has executed a transaction of the
\* session whose receipt was obtained (for execute_contract the status it
\* returns is SUCCESS); a primitive whose transaction failed raised the
\* exception of the ledger SDK and returned no value.
C15_ResultOnlyAfterReceipt ==
    hcLast.op \in Primitives =>
        /\ hcLast.error = NoError =>
              /\ hcLast.txn \in 1..Len(txLog)
              /\ txLog[hcLast.txn].by = "HederaClient"
              /\ txLog[hcLast.txn].ok
              /\ hcLast.ret # 0
              /\ hcLast.op = "execute_contract" => hcLast.status = "SUCCESS"
        /\ (hcLast.txn # 0 /\ ~txLog[hcLast.txn].ok) =>
              /\ hcLast.error = SdkException
              /\ hcLast.ret = 0
              /\ hcLast.status = None

\* submit_message on a topic whose submit key is not the operator's: the
\* transaction failed and the call raised.
C15_Witness ==
    /\ hcLast.op = "submit_message"
    /\ hcLast.topic_id = 1
    /\ hc.operator.privateKey.material = <<"bb">>
    /\ Len(txLog) = 1
    /\ ~txLog[1].ok
    /\ hcLast.error = SdkException

\* The transaction type each primitive builds.
TxTypeOf(op) ==
    CASE op = "create_topic" -> "TopicCreate"
      [] op = "submit_message" -> "TopicMessageSubmit"
      [] op = "create_file" -> "FileCreate"
      [] op = "deploy_contract" -> "ContractCreate"
      [] op = "execute_contract" -> "ContractExecute"

\* C16: a call of a primitive that reaches the ledger adds exactly one
\* transaction of its type to the ledger's log, executed with the client of
\* the session, whether it succeeds or fails; the id it returns is the id
\* of what that transaction made (file, topic, contract) or the id of the
\* transaction; a call that fails before executing adds nothing.
C16_OneTransactionPerCall ==
    [][ (hcLast' # hcLast /\ hcLast'.op \in Primitives) =>
          /\ hcLast'.txn = 0 => txLog' = txLog
          /\ hcLast'.txn # 0 =>
                /\ Len(txLog') = Len(txLog) + 1
                /\ SubSeq(txLog', 1, Len(txLog)) = txLog
                /\ hcLast'.txn = Len(txLog')
                /\ Last(txLog').by = "HederaClient"
                /\ Last(txLog').type = TxTypeOf(hcLast'.op)
                /\ hcLast'.client = hc.client
                /\ hcLast'.error = NoError =>
                      CASE hcLast'.op = "create_file" ->
                             /\ files' = Append(files, Last(txLog').contents)
                             /\ hcLast'.ret = Len(files')
                        [] hcLast'.op = "create_topic" ->
                             /\ Len(topics') = Len(topics) + 1
                             /\ hcLast'.ret = Len(topics')
                        [] hcLast'.op = "deploy_contract" ->
                             /\ Len(contracts') = Len(contracts) + 1
                             /\ hcLast'.ret = Len(contracts')
                        [] OTHER -> hcLast'.ret = hcLast'.txn
      ]_vars

C16_Witness ==
    /\ hcLast.op = "submit_message"
    /\ hcLast.error = NoError
    /\ hcLast.ret = 1
    /\ Len(txLog) = 1
    /\ txLog[1].type = "TopicMessageSubmit"
    /\ hcLast.client = "mainnet"
    /\ topics[1].messages = <<txLog[1].contents>>

\* The encoding the type of a value asks for.
EncodingByType(value) ==
    CASE value.type = "str" -> [fn |-> "addString", arg |-> value.val]
      [] value.type = "int" -> [fn |-> "addUint256", arg |-> value.val]
      [] value.type = "bool" -> [fn |-> "addBool", arg |-> value.val]

SupportedParam(value) == value.type \in {"str", "int", "bool"}

\* C17: when every constructor parameter is a string, an integer or a
\* boolean, the transaction of deploy_contract carries one encoded parameter
\* for each item, in the order of the dict, each encoded by the type of its
\* value: a boolean with addBool, never with addUint256.
C17_ParamsEncodedByType ==
    ( /\ hcLast.op = "deploy_contract" /\ hcLast.txn # 0
      /\ \A i \in 1..Len(hcLast.params) : SupportedParam(hcLast.params[i].v) ) =>
        txLog[hcLast.txn].contents =
            [i \in 1..Len(hcLast.params) |-> EncodingByType(hcLast.params[i].v)]

\* C18: deploy_contract with a constructor parameter that is not a string,
\* an integer or a boolean raises UnsupportedParameterTypeError and executes
\* no transaction.
C18_UnsupportedParamFails ==
    ( /\ hcLast.op = "deploy_contract"
      /\ \E i \in 1..Len(hcLast.params) : ~SupportedParam(hcLast.params[i].v) ) =>
        /\ hcLast.txn = 0
        /\ hcLast.error = [type |-> "UnsupportedParameterTypeError"]

\* ------------------------------------------------------------------------
\* Properties of the deployment calls of the orchestrator (SpecOrch)
\* ------------------------------------------------------------------------
\* C19: every result a deployment call returned is backed by a contract
\* creation the ledger has a receipt for.
C19_ResultHasTransaction ==
    \A i \in 1..Len(orchLog) :
        \E j \in 1..Len(txLog) : txLog[j].type = "ContractCreate" /\ txLog[j].ok

\* C20: the contract ids two different deployment calls returned differ.
C20_ContractIdsDiffer ==
    \A i, j \in 1..Len(orchLog) :
        i # j => orchLog[i].result.contract_id # orchLog[j].result.contract_id

\* ------------------------------------------------------------------------
\* Properties of the registry adapter (SpecRegistry)
\* ------------------------------------------------------------------------
\* A step that is one call of interact_with_registry: registryLast' is the
\* record of that call.
RegistryCall ==
    /\ UNCHANGED <<env, orch>>
    /\ <<registryLast, registrySeen>>' # <<registryLast, registrySeen>>

KnownActions == {"get_contracts", "register_contract", "get_contract_details"}
MissingContractId(call) ==
    /\ call.action \in {"register_contract", "get_contract_details"}
    /\ call.contract_id \in {None, ""}

\* The failures of the calls that do not lack a contract id.
OtherFailures ==
    {InteractWithRegistry(env, registry_id, action, contract_id, metadata).error :
       registry_id \in RegistryIds, action \in RegistryActions \ KnownActions,
       contract_id \in RegContractIds, metadata \in Metadatas}

\* C21: a call of register_contract or get_contract_details without a
\* contract id fails, and with an error of a kind that no other failure of
\* the method has.
C21_MissingParameterDistinct ==
    MissingContractId(registryLast) =>
        /\ registryLast.error # NoError
        /\ \A f \in OtherFailures : f.type # registryLast.error.type

\* C22: the dispatch is closed: an action other than get_contracts,
\* register_contract and get_contract_details raises the "Unsupported
\* action" error and returns nothing, and each of the three returns a result
\* when the contract id it requires is given.
C22_ClosedDispatch ==
    /\ (registryLast.action \in RegistryActions \ KnownActions =>
          /\ registryLast.result = NoResult
          /\ registryLast.error # NoError
          /\ registryLast.error.message =
               <<"Failed to interact with registry: ", "Unsupported action: ",
                 registryLast.action>>)
    /\ (registryLast.action \in KnownActions /\ ~MissingContractId(registryLast) =>
          /\ registryLast.error = NoError
          /\ registryLast.result # NoResult)

C22_Witness ==
    /\ registryLast.action = "delete_contract"
    /\ registryLast.error # NoError
    /\ registrySeen.listed # NoResult

\* The tracked registry was listed, with no registration on it since.
ListedUnwritten ==
    /\ registrySeen.listed # NoResult
    /\ registrySeen.registered = NoRegistration

\* A call of get_contracts on the tracked registry.
ListingCall ==
    /\ RegistryCall
    /\ registryLast'.action = "get_contracts"
    /\ registryLast'.registry_id = TrackedRegistry

OwnerOf(listing) == listing.contracts[1].owner

LastRequest(topic_id, i) ==
    LET sent == {j \in 1..(i - 1) :
                   /\ hcsLog[j].op = "_hcs10_submit_message"
                   /\ hcsLog[j].arg[1] = topic_id}
    IN IF sent = {} THEN 0 ELSE CHOOSE j \in sent : \A k \in sent : k <= j

\* The messages that reached the topic after that request and before step i.
NewMessages(topic_id, i) ==
    {k \in 1..Len(hcsTopic[topic_id]) :
       /\ LastRequest(topic_id, i) > 0
       /\ hcsTopic[topic_id][k].at >= LastRequest(topic_id, i)
       /\ hcsTopic[topic_id][k].at < i}

\* C24: waiting for a response on a topic that received no message after
\* the request ends with a protocol-timeout error: it returns neither a
\* message nor an empty result.
C24_WaitTimesOut ==
    \A i \in 1..Len(hcsLog) :
       (/\ hcsLog[i].op = "_hcs10_wait_for_response"
        /\ NewMessages(hcsLog[i].arg, i) = {}) =>
           /\ hcsLog[i].error # NoError
           /\ hcsLog[i].error.type = "ProtocolTimeoutError"

\* C25: a result of agent_collaboration comes out of a round that discovered
\* the agents, connected to one of them, submitted the request on the topic
\* of that connection, waited on that topic and parsed what it was given: the
\* result is the parse of a message that reached the topic after the request.
C25_RoundInOrder ==
    \A i \in 1..Len(hcsLog) :
       hcsLog[i].op = "agent_collaboration" =>
          \E a, b, c, d, e \in 1..(i - 1) :
             /\ a < b /\ b < c /\ c < d /\ d < e
             /\ hcsLog[a].op = "_hcs10_discover_agents"
             /\ hcsLog[b].op = "_hcs10_connection_request"
             /\ \E k \in 1..Len(hcsLog[a].ret) : hcsLog[a].ret[k] = hcsLog[b].arg
             /\ hcsLog[c].op = "_hcs10_submit_message"
             /\ hcsLog[c].arg[1] = hcsLog[b].ret
             /\ hcsLog[d].op = "_hcs10_wait_for_response"
             /\ hcsLog[d].arg = hcsLog[b].ret
             /\ \E k \in NewMessages(hcsLog[d].arg, d) :
                  hcsTopic[hcsLog[d].arg][k].message = hcsLog[d].ret
             /\ hcsLog[e].op = "_parse_audit_report"
             /\ hcsLog[e].arg = hcsLog[d].ret
             /\ hcsLog[i].ret = hcsLog[e].ret

\* ------------------------------------------------------------------------
\* Properties of the audit and of the compilation (SpecTools)
\* ------------------------------------------------------------------------
\* The calls security_audit made of one collaborator.
CallsOf(fn) == {i \in 1..Len(auditLast.calls) : auditLast.calls[i].call.fn = fn}

\* C26: a security_audit that returns has called the static analysis once
\* and the AI completion once, both on the source it was given, and returns
\* one dict whose static_analysis is what the static analysis produced and
\* whose ai_analysis is the text the AI returned, each unchanged.
C26_AuditHoldsBothOutputs ==
    auditLast.returned =>
       /\ Cardinality(CallsOf("_simulate_static_analysis")) = 1
       /\ Cardinality(CallsOf("groq_client.chat.completions.create")) = 1
       /\ \A i \in CallsOf("_simulate_static_analysis") :
            /\ auditLast.calls[i].call.arg = auditLast.code
            /\ auditLast.result.static_analysis = auditLast.calls[i].ret
       /\ \A i \in CallsOf("groq_client.chat.completions.create") :
            /\ auditLast.calls[i].call.arg.messages[1].content
                 = <<"Analyze Solidity security vulnerabilities:\n">> \o auditLast.code
            /\ auditLast.result.ai_analysis = auditLast.calls[i].ret
       /\ DOMAIN auditLast.result = {"static_analysis", "ai_analysis"}

C26_Witness ==
    /\ auditLast.returned
    /\ auditLast.code = <<"contract", "{", "}">>
    /\ auditLast.result.ai_analysis = "Mock AI analysis"
    /\ auditLast.result.static_analysis.reentrancy
         = <<"Potential reentrancy in withdraw function">>

\* What the claim calls a declaration: the keyword as a token of the text,
\* not the word inside a comment.
Declares(code) ==
    \E i \in 1..Len(code) : code[i] \in {"contract", "interface", "library"}

\* C29: compile_contract never raises; success is true exactly when errors
\* is empty; when it is false, bytecode and abi are None and errors is not
\* empty; an empty source, a source without a contract, interface or library
\* declaration and a source with unequal numbers of { and } give success
\* false.
C29_CompileValidates ==
    compileLast.called =>
       /\ ~compileLast.raised
       /\ compileLast.result.success <=> (compileLast.result.errors = <<>>)
       /\ ~compileLast.result.success =>
             /\ compileLast.result.bytecode = None
             /\ compileLast.result.abi = None
             /\ compileLast.result.errors # <<>>
       /\ (compileLast.code # NoSource /\
           (\/ compileLast.code = <<>>
            \/ ~Declares(compileLast.code)
            \/ CountChar(compileLast.code, "{") # CountChar(compileLast.code, "}")))
          => ~compileLast.result.success

\* ------------------------------------------------------------------------
\* Properties of the orchestrator's construction (SpecOrch)
\* ------------------------------------------------------------------------
\* C27: a failure to construct the ledger session is not swallowed: no
\* orchestrator exists whose ledger session is absent.
C27_NoOrchestratorWithoutSession ==
    orch.exists => orch.hedera_client.exists

\* ------------------------------------------------------------------------
\* Properties of the order of a deployment's transactions (SpecDeploy)
\* ------------------------------------------------------------------------
\* The transactions of one deployment by deploy_registry, in the order the
\* code builds them.
DeploymentOrder == <<"FileCreate", "FileAppend", "ContractCreate">>

\* C28: one deployment issues its transactions one at a time: the k-th
\* transaction deploy_registry.deploy_contract submits is the k-th of create,
\* append, contract create, and it is submitted only when every transaction
\* before it has its receipt; at most the last one submitted is without a
\* successful receipt.
C28_OneTransactionAtATime ==
    /\ Len(DrTxs) <= Len(DeploymentOrder)
    /\ \A k \in 1..Len(DrTxs) :
         /\ DrTxs[k].type = DeploymentOrder[k]
         /\ k < Len(DrTxs) => DrTxs[k].ok
    /\ dr.pc \in {"file_append", "contract_create", "returned"} =>
          \A k \in 1..Len(DrTxs) : DrTxs[k].ok

\* The three transactions of a deployment were submitted, each after the
\* receipt of the one before; the last one failed.
C28_Witness ==
    /\ Len(DrTxs) = 3
    /\ DrTxs[1].ok /\ DrTxs[2].ok /\ ~DrTxs[3].ok
    /\ dr.pc = "raised"

====
